---- MODULE Spec2Model ----
(***************************************************************************)
(* Model of the recipe application's two catch-all serverless request     *)
(* handlers (api/food/wine/[...action].ts and the recipe-detail handler)  *)
(* and of the retry configuration of its React Query hooks.               *)
(*                                                                         *)
(* Conventions.  A JavaScript string is a tuple of one-character strings. *)
(* A query parameter is the tuple of the strings given for its key: <<>>  *)
(* when the key is absent, <<s>> for the string s, and a longer tuple for *)
(* a repeated key, which the platform hands over as an array (the         *)
(* declared type of a query value is string | string[]).                  *)
(***************************************************************************)
EXTENDS Integers, Sequences, FiniteSets, TLC

(***************************************************************************)
(* Bounds of the explored inputs.                                          *)
(***************************************************************************)
MaxTextLen == 1
MaxIdLen == 2
MaxPriceLen == 2
MaxNumberLen == 3
MaxFetches == 2

(***************************************************************************)
(* State.  inv: the invocations of the request handlers, one per slot.    *)
(* query: the client's React Query cache entries, one per hook.           *)
(* provider: the RecipeProvider component and the URL of the page.        *)
(* cache: the favourites, search and weather queries with their           *)
(* observers, and the toasts shown.  dash: the ApiStatusDashboard.        *)
(***************************************************************************)
VARIABLES inv, query, provider, cache, dash

vars == <<inv, query, provider, cache, dash>>

\* The invocation slots: two, so that invocations can overlap.
Slots == {1, 2}

(***************************************************************************)
(* JavaScript string helpers.                                              *)
(***************************************************************************)
Digits == {"0", "1", "2", "3", "4", "5", "6", "7", "8", "9"}

WhiteSpace == {" ", "\t", "\n", "\r"}

DigitValue(c) ==
  CASE c = "0" -> 0 [] c = "1" -> 1 [] c = "2" -> 2 [] c = "3" -> 3
    [] c = "4" -> 4 [] c = "5" -> 5 [] c = "6" -> 6 [] c = "7" -> 7
    [] c = "8" -> 8 [] c = "9" -> 9

RECURSIVE StringsUpTo(_, _)
StringsUpTo(alphabet, n) ==
  IF n = 0 THEN {<<>>}
  ELSE LET shorter == StringsUpTo(alphabet, n - 1)
       IN  shorter \cup {Append(s, c) : s \in shorter, c \in alphabet}

\* Array.prototype.join(","), the string an array is coerced to.
RECURSIVE JoinComma(_)
JoinComma(v) ==
  IF Len(v) = 0 THEN <<>>
  ELSE IF Len(v) = 1 THEN v[1]
  ELSE v[1] \o <<",">> \o JoinComma(Tail(v))

\* ToString of a query value where the code uses it as a string.
ToStr(v) == JoinComma(v)

\* Truthiness of a query value: undefined and "" are falsy, an array is truthy.
Truthy(v) == Len(v) >= 2 \/ (Len(v) = 1 /\ v[1] # <<>>)

IsArray(v) == Len(v) >= 2

\* Number of leading characters of s, from index i on, that lie in set.
RECURSIVE RunLen(_, _, _)
RunLen(s, i, set) ==
  IF i > Len(s) THEN 0
  ELSE IF s[i] \in set THEN 1 + RunLen(s, i + 1, set)
  ELSE 0

RECURSIVE TrailingRunLen(_, _, _)
TrailingRunLen(s, i, set) ==
  IF i < 1 THEN 0
  ELSE IF s[i] \in set THEN 1 + TrailingRunLen(s, i - 1, set)
  ELSE 0

\* Variant: nothing is removed.
trimNothing(s) == s

\* String.prototype.trim
trim(s) ==
  LET lead == RunLen(s, 1, WhiteSpace)
  IN  IF lead = Len(s) THEN <<>>
      ELSE SubSeq(s, lead + 1, Len(s) - TrailingRunLen(s, Len(s), WhiteSpace))

\* String.prototype.includes
includes(s, sub) ==
  \E i \in 1..(Len(s) - Len(sub) + 1) : SubSeq(s, i, i + Len(sub) - 1) = sub

\* Value of the decimal digit string s[i .. i+n-1].
RECURSIVE DigitsValue(_, _, _)
DigitsValue(s, i, n) ==
  IF n = 0 THEN 0
  ELSE 10 * DigitsValue(s, i, n - 1) + DigitValue(s[i + n - 1])

RECURSIVE Pow10(_)
Pow10(n) == IF n = 0 THEN 1 ELSE 10 * Pow10(n - 1)

(***************************************************************************)
(* JavaScript numbers, as far as the handlers use them: undefined, NaN or *)
(* the signed decimal fraction (-1)^neg * num / den.                      *)
(***************************************************************************)
Undefined == [kind |-> "undefined", neg |-> FALSE, num |-> 0, den |-> 1]

NaN == [kind |-> "NaN", neg |-> FALSE, num |-> 0, den |-> 1]

Number(neg, num, den) == [kind |-> "number", neg |-> neg, num |-> num, den |-> den]

isNaN(x) == x.kind = "NaN"

Signed(x) == IF x.neg THEN 0 - x.num ELSE x.num

\* x < k and x > k for a number x and an integer literal k; false for NaN.
LessThan(x, k) == x.kind = "number" /\ Signed(x) < k * x.den

GreaterThan(x, k) == x.kind = "number" /\ Signed(x) > k * x.den

\* parseInt(s, 10): leading white space, an optional sign, then the longest
\* run of decimal digits; NaN when that run is empty.
parseInt(s) ==
  LET start == RunLen(s, 1, WhiteSpace) + 1
      signed == start <= Len(s) /\ s[start] \in {"+", "-"}
      first == IF signed THEN start + 1 ELSE start
      n == RunLen(s, first, Digits)
  IN  IF n = 0 THEN NaN
      ELSE Number(signed /\ s[start] = "-", DigitsValue(s, first, n), 1)

\* parseFloat(s): leading white space, an optional sign, then the longest
\* prefix of the form digits [. digits] or . digits; NaN when there is none.
\* (Exponents and "Infinity" need characters outside the explored alphabet.)
parseFloat(s) ==
  LET start == RunLen(s, 1, WhiteSpace) + 1
      signed == start <= Len(s) /\ s[start] \in {"+", "-"}
      first == IF signed THEN start + 1 ELSE start
      n == RunLen(s, first, Digits)
      dot == first + n
      hasDot == dot <= Len(s) /\ s[dot] = "."
      m == IF hasDot THEN RunLen(s, dot + 1, Digits) ELSE 0
  IN  IF n = 0 /\ m = 0 THEN NaN
      ELSE Number(signed /\ s[start] = "-",
                  DigitsValue(s, first, n) * Pow10(m) + DigitsValue(s, dot + 1, m),
                  Pow10(m))

(***************************************************************************)
(* Requests.  A request names the route file that serves it and carries   *)
(* the method and the query parameters the two handlers read.             *)
(***************************************************************************)
Methods == {"GET", "POST", "OPTIONS"}

Absent == <<>>

Str(s) == <<s>>

\* The values of a query key over the strings of set S: absent, one string,
\* or the key given twice (explored for the one-character strings).
QueryValues(S) ==
  {Absent} \cup {Str(s) : s \in S} \cup {<<s, s>> : s \in {t \in S : Len(t) = 1}}

FoodWinePaths ==
  {<<>>, <<"dishes">>, <<"pairing">>, <<"other">>, <<"other", "dishes">>}

RecipePaths ==
  {<<>>, <<"information">>, <<"similar">>, <<"summary">>, <<"other", "summary">>}

Flags == {"includeNutrition", "addWinePairing", "addTasteData"}

\* A flag parameter is either the string "true" or something else; given
\* is the set of flags whose parameter is the string "true".
Request(handler, method, action, recipeId, wine, food, maxPrice, number, given) ==
  [handler |-> handler, method |-> method, action |-> action,
   recipeId |-> recipeId, wine |-> wine, food |-> food,
   maxPrice |-> maxPrice, number |-> number, given |-> given]

NoRequest ==
  Request("none", "GET", <<>>, Absent, Absent, Absent, Absent, Absent, {})

FoodWineRequests ==
  {Request("foodwine", m, a, Absent, w, f, p, Absent, {}) :
     m \in Methods, a \in FoodWinePaths,
     w \in QueryValues(StringsUpTo({"a", " "}, MaxTextLen)),
     f \in QueryValues(StringsUpTo({"a", " "}, MaxTextLen)),
     p \in QueryValues(StringsUpTo({"0", "5", "-", "."}, MaxPriceLen))}

RecipeRequests ==
  {Request("recipe", m, a, r, Absent, Absent, Absent, n, g) :
     m \in Methods, a \in RecipePaths,
     r \in QueryValues(StringsUpTo({"7", "a"}, MaxIdLen)),
     n \in QueryValues(StringsUpTo({"0", "1", "-"}, MaxNumberLen)),
     g \in SUBSET Flags}

Requests == FoodWineRequests \cup RecipeRequests

\* The requests of the two-invocation specification.
PairRequests ==
  {Request("foodwine", m, a, Absent, w, f, p, Absent, {}) :
     m \in {"GET", "POST"}, a \in {<<"dishes">>, <<"pairing">>, <<"other">>},
     w \in {Absent, Str(<<"a">>)}, f \in {Absent, Str(<<"a">>)},
     p \in {Absent, Str(<<"5">>), Str(<<"-", "5">>)}}
  \cup
  {Request("recipe", m, a, r, Absent, Absent, Absent, n, {}) :
     m \in {"GET", "POST"},
     a \in {<<"information">>, <<"similar">>, <<"summary">>},
     r \in {Str(<<"7">>), Str(<<"a">>)},
     n \in {Absent, Str(<<"0">>), Str(<<"1">>)}}

(***************************************************************************)
(* Outcomes of the upstream call (lib/recipe-api): a result, a thrown     *)
(* Error with a message, or a thrown value that is not an Error.          *)
(***************************************************************************)
Results == {"r1", "r2"}

ErrorMessages ==
  {<<"r", "a", "t", "e", " ", "l", "i", "m", "i", "t">>,
   <<"H", "T", "T", "P", " ", "4", "0", "2">>,
   <<"L", "i", "m", "i", "t">>,
   <<"t", "i", "m", "e", "o", "u", "t">>}

Thrown(isError, message) == [isError |-> isError, message |-> message]

Throwables ==
  {Thrown(TRUE, m) : m \in ErrorMessages} \cup {Thrown(FALSE, <<"l", "i", "m", "i", "t">>)}

NoThrown == Thrown(FALSE, <<>>)

Outcome(kind, value, thrown) == [kind |-> kind, value |-> value, thrown |-> thrown]

NoOutcome == Outcome("none", "", NoThrown)

(***************************************************************************)
(* Responses and upstream calls.                                           *)
(***************************************************************************)
\* response.status(status).json(body), after setCorsHeaders(response).
Response(status, body) == [status |-> status, body |-> body, cors |-> TRUE]

Call(fn, arg, num, options) ==
  [fn |-> fn, arg |-> arg, num |-> num, options |-> options]

NoCall == Call("none", <<>>, Undefined, {})

\* What a handler does up to its first await or return: it answers, or it
\* calls upstream and suspends, or it throws inside its try block.
Answer(response) == [kind |-> "answer", response |-> response, call |-> NoCall, thrown |-> NoThrown]

Await(call) == [kind |-> "await", response |-> Response(0, [none |-> TRUE]), call |-> call, thrown |-> NoThrown]

Throw(thrown) == [kind |-> "throw", response |-> Response(0, [none |-> TRUE]), call |-> NoCall, thrown |-> thrown]

(***************************************************************************)
(* lib/api-utils.  The file is not part of the sources at hand; the       *)
(* handlers only rely on handleCorsPreflight answering the preflight      *)
(* request itself and returning true for it.                              *)
(***************************************************************************)
handleCorsPreflight(request) == request.method = "OPTIONS"

PreflightResponse == Response(200, [ended |-> TRUE])

(***************************************************************************)
(* The catch block both handlers share in shape.                          *)
(***************************************************************************)
UnknownError == <<"U", "n", "k", "n", "o", "w", "n", " ", "e", "r", "r", "o", "r">>

errorMessage(thrown) == IF thrown.isError THEN thrown.message ELSE UnknownError

\* Variant: only "limit" is looked for.
statusCodeLimitOnly(message) ==
  IF includes(message, <<"l", "i", "m", "i", "t">>) THEN 402 ELSE 500

\* Variant: a limiter shared by the invocations answers 402 while another
\* invocation is in progress.
statusCodeShared(message) ==
  IF Cardinality({s \in Slots : inv[s].pc # "idle"}) > 1 THEN 402
  ELSE IF includes(message, <<"l", "i", "m", "i", "t">>) \/ includes(message, <<"4", "0", "2">>) THEN 402
  ELSE 500

statusCode(message) ==
  IF includes(message, <<"l", "i", "m", "i", "t">>) \/ includes(message, <<"4", "0", "2">>) THEN 402 ELSE 500

Catch(label, thrown) ==
  Response(statusCode(errorMessage(thrown)),
           [error |-> label, message |-> errorMessage(thrown)])

\* The TypeError of calling .trim() on an array.
TrimTypeError(name) == Thrown(TRUE, name \o <<".", "t", "r", "i", "m", " ", "i", "s", " ", "n", "o", "t", " ", "a", " ", "f", "u", "n", "c", "t", "i", "o", "n">>)

\* Variant: the last segment instead of the first.
PathLast(path) == IF Len(path) = 0 THEN <<>> ELSE <<path[Len(path)]>>

\* path[0] of the catch-all segments: <<>> stands for undefined.
PathHead(path) == IF Len(path) = 0 THEN <<>> ELSE <<path[1]>>

(***************************************************************************)
(* api/food/wine/[...action].ts                                            *)
(***************************************************************************)
\* Variant: POST is let through as well.
FoodWineMethodRejectedExceptPost(request) == request.method \notin {"GET", "POST"}

FoodWineMethodRejected(request) == request.method # "GET"

DishesRoute(request) ==
  LET wine == request.wine
  IN  IF ~Truthy(wine)
        THEN Answer(Response(400, [error |-> "Wine type is required"]))
      ELSE IF IsArray(wine) THEN Throw(TrimTypeError(<<"w", "i", "n", "e">>))
      ELSE IF Len(trim(wine[1])) = 0
        THEN Answer(Response(400, [error |-> "Wine type is required"]))
      ELSE Await(Call("getDishPairingForWine", wine[1], Undefined, {}))

MaxPriceRejected(maxPrice) ==
  maxPrice # Undefined /\ (isNaN(maxPrice) \/ LessThan(maxPrice, 0))

PairingRoute(request) ==
  LET food == request.food
      maxPrice == IF Truthy(request.maxPrice)
                    THEN parseFloat(ToStr(request.maxPrice))
                    ELSE Undefined
  IN  IF ~Truthy(food)
        THEN Answer(Response(400, [error |-> "Food name is required"]))
      ELSE IF IsArray(food) THEN Throw(TrimTypeError(<<"f", "o", "o", "d">>))
      ELSE IF Len(trim(food[1])) = 0
        THEN Answer(Response(400, [error |-> "Food name is required"]))
      ELSE IF MaxPriceRejected(maxPrice)
        THEN Answer(Response(400, [error |-> "maxPrice must be a positive number"]))
      ELSE Await(Call("getWinePairing", food[1], maxPrice, {}))

FoodWineHandler(request) ==
  IF handleCorsPreflight(request) THEN Answer(PreflightResponse)
  ELSE IF FoodWineMethodRejected(request)
    THEN Answer(Response(405, [error |-> "Method not allowed"]))
  ELSE LET action == PathHead(request.action)
       IN  IF action = <<"dishes">> THEN DishesRoute(request)
           ELSE IF action = <<"pairing">> THEN PairingRoute(request)
           ELSE Answer(Response(404, [error |-> "Not found"]))

(***************************************************************************)
(* api/recipes/[recipeId]/[...action].ts                                   *)
(***************************************************************************)
\* /^\d+$/.test(s)
DigitsOnly(s) == Len(s) >= 1 /\ \A i \in 1..Len(s) : s[i] \in Digits

\* Variant: the pattern test is left out.
ValidRecipeIdNonEmpty(recipeId) == Truthy(recipeId)

\* The check of line 35 on recipeId = (request.query.recipeId as string) || "".
ValidRecipeId(recipeId) == Truthy(recipeId) /\ DigitsOnly(ToStr(recipeId))

\* Variant: POST is let through as well.
RecipeMethodRejectedExceptPost(request) == request.method \notin {"GET", "POST"}

RecipeMethodRejected(request) == request.method # "GET"

DefaultNumber == 10

\* Variant: the upper limit is not checked.
NumberRejectedNoUpper(number) == isNaN(number) \/ LessThan(number, 1)

NumberRejected(number) ==
  isNaN(number) \/ LessThan(number, 1) \/ GreaterThan(number, 100)

InformationRoute(request) ==
  Await(Call("getRecipeInformation", ToStr(request.recipeId), Undefined,
             request.given))

\* Variant: the number is not validated before the call.
SimilarRouteUnchecked(request) ==
  LET number == IF Truthy(request.number)
                  THEN parseInt(ToStr(request.number))
                  ELSE Number(FALSE, DefaultNumber, 1)
  IN  Await(Call("getSimilarRecipes", ToStr(request.recipeId), number, {}))

SimilarRoute(request) ==
  LET number == IF Truthy(request.number)
                  THEN parseInt(ToStr(request.number))
                  ELSE Number(FALSE, DefaultNumber, 1)
  IN  IF NumberRejected(number)
        THEN Answer(Response(400, [error |-> "Number must be between 1 and 100"]))
      ELSE Await(Call("getSimilarRecipes", ToStr(request.recipeId), number, {}))

SummaryRoute(request) ==
  Await(Call("getRecipeSummary", ToStr(request.recipeId), Undefined, {}))

RecipeHandler(request) ==
  IF handleCorsPreflight(request) THEN Answer(PreflightResponse)
  ELSE IF ~ValidRecipeId(request.recipeId)
    THEN Answer(Response(400, [error |-> "Valid recipe ID is required"]))
  ELSE IF RecipeMethodRejected(request)
    THEN Answer(Response(405, [error |-> "Method not allowed"]))
  ELSE LET action == PathHead(request.action)
       IN  IF action = <<"information">> THEN InformationRoute(request)
           ELSE IF action = <<"similar">> THEN SimilarRoute(request)
           ELSE IF action = <<"summary">> THEN SummaryRoute(request)
           ELSE Answer(Response(404, [error |-> "Not found"]))

Handler(request) ==
  IF request.handler = "foodwine" THEN FoodWineHandler(request)
  ELSE RecipeHandler(request)

\* The "error" text of the catch block of each handler.
CatchLabel(request) ==
  IF request.handler = "foodwine" THEN "Failed to process request"
  ELSE "Failed to fetch recipe data"

(***************************************************************************)
(* State: the invocations of the handlers.  Each invocation slot holds    *)
(* the request being served, the upstream calls made for it, the          *)
(* responses sent for it and the outcome of its upstream call.            *)
(***************************************************************************)
Idle ==
  [pc |-> "idle", request |-> NoRequest, calls |-> <<>>, sent |-> <<>>,
   outcome |-> NoOutcome]

InitInv == inv = [s \in Slots |-> Idle]

\* The platform invokes the handler: it runs to its first await or return.
\* A throw inside the try block is answered by the catch block.
Receive(s, requests) ==
  /\ inv[s].pc = "idle"
  /\ \E request \in requests :
     LET step == Handler(request)
     IN  inv' = [inv EXCEPT ![s] =
           CASE step.kind = "answer" ->
                  [pc |-> "done", request |-> request, calls |-> <<>>,
                   sent |-> <<step.response>>, outcome |-> NoOutcome]
             [] step.kind = "throw" ->
                  [pc |-> "done", request |-> request, calls |-> <<>>,
                   sent |-> <<Catch(CatchLabel(request), step.thrown)>>,
                   outcome |-> NoOutcome]
             [] step.kind = "await" ->
                  [pc |-> "awaiting", request |-> request,
                   calls |-> <<step.call>>, sent |-> <<>>,
                   outcome |-> NoOutcome]]
  /\ UNCHANGED <<query, provider, cache, dash>>

\* The awaited upstream call returns: response.status(200).json(results).
UpstreamReturns(s, results) ==
  /\ inv[s].pc = "awaiting"
  /\ inv' = [inv EXCEPT ![s].pc = "done",
                        ![s].sent = Append(@, Response(200, [data |-> results])),
                        ![s].outcome = Outcome("ok", results, NoThrown)]
  /\ UNCHANGED <<query, provider, cache, dash>>

\* The awaited upstream call throws: the catch block answers.
UpstreamThrows(s, thrown) ==
  /\ inv[s].pc = "awaiting"
  /\ inv' = [inv EXCEPT ![s].pc = "done",
                        ![s].sent = Append(@, Catch(CatchLabel(inv[s].request), thrown)),
                        ![s].outcome = Outcome("throw", "", thrown)]
  /\ UNCHANGED <<query, provider, cache, dash>>

\* The handler's promise settles; the slot serves the next request.
Return(s) ==
  /\ inv[s].pc = "done"
  /\ inv' = [inv EXCEPT ![s] = Idle]
  /\ UNCHANGED <<query, provider, cache, dash>>

(***************************************************************************)
(* The client's queries (hooks/useRecipes, hooks/useWeatherSuggestions,   *)
(* main.tsx).  A fetch invokes the query function; when it rejects, the   *)
(* library retries while the number of failures so far is below the       *)
(* query's retry option, and puts the query into the error state          *)
(* otherwise.                                                              *)
(***************************************************************************)
Queries == {"search", "favourites", "summary", "weather"}

\* defaultOptions.queries.retry of the QueryClient.
DefaultRetry == 1

\* Variant: the search hook leaves retry to the library's default of 3.
HookRetryLibraryDefault ==
  [search |-> 3, favourites |-> 1, summary |-> 1, weather |-> 2]

\* The retry option each hook passes to useQuery.
HookRetry ==
  [search |-> 1, favourites |-> 1, summary |-> 1, weather |-> 2]

\* The option in force: a hook's own option overrides the client's default.
Retry(q) == IF q \in DOMAIN HookRetry THEN HookRetry[q] ELSE DefaultRetry

\* status: idle, fetching, waiting (for the retry delay), success, error.
\* failureCount: failures of the current fetch.  invoked: invocations of the
\* query function in the current fetch.  fetches: fetches triggered so far.
QueryIdle ==
  [status |-> "idle", failureCount |-> 0, invoked |-> 0, fetches |-> 0]

InitQuery == query = [q \in Queries |-> QueryIdle]

(***************************************************************************)
(* context/RecipeContext: the RecipeProvider before it is mounted.        *)
(* st is the state of the last render, url the query string of the page,  *)
(* updates the state updates queued for the next render, effects the      *)
(* effects of the last render that have not run yet; called holds the     *)
(* argument of the last call of each setter from outside the provider.    *)
(***************************************************************************)
\* params.get(...) of a key the query string does not have.
Null == "null"

\* No selected recipe (undefined).
NoRecipe == "undefined"

NotCalled == "not called"

InitialState ==
  [selectedRecipe |-> NoRecipe, searchTerm |-> "", selectedTab |-> "search"]

ProviderUnmounted ==
  [mounted |-> FALSE,
   st |-> InitialState,
   url |-> [recipeId |-> Null, search |-> Null, tab |-> Null],
   opened |-> [recipeId |-> Null, search |-> Null, tab |-> Null],
   updates |-> <<>>,
   effects |-> <<>>,
   called |-> [selectedRecipe |-> NotCalled, searchTerm |-> NotCalled,
               selectedTab |-> NotCalled]]

InitProvider == provider = ProviderUnmounted

(***************************************************************************)
(* One entry of the QueryClient's cache: the entry of the query key that   *)
(* is observed first.  mounted: an enabled observer of the key is mounted. *)
(* hasData, asOf: the cached data and the number of favourites mutations   *)
(* that had succeeded when its fetch started.  invalidated: marked by      *)
(* invalidateQueries.  aged: the data is older than the stale time.        *)
(* fetching, fetchAsOf, failureCount: the fetch in flight.  answered: the  *)
(* HTTP status of the last response.  error: the error of the error state. *)
(* toast: the last error toast of AppContent.  mutations: favourites       *)
(* mutations that succeeded.  fetched: the key was fetched successfully    *)
(* and not invalidated since.  event: what happened last.                  *)
(***************************************************************************)
MaxMutations == 2

NoError == [message |-> <<>>]

CacheInitial ==
  [key |-> "none", mounted |-> FALSE, status |-> "pending",
   hasData |-> FALSE, asOf |-> 0, invalidated |-> FALSE, aged |-> FALSE,
   fetching |-> FALSE, fetchAsOf |-> 0, failureCount |-> 0,
   answered |-> "none", error |-> NoError, toast |-> "none",
   mutations |-> 0, fetched |-> FALSE, event |-> "none"]

InitCache == cache = CacheInitial

(***************************************************************************)
(* components/status/ApiStatusDashboard before it is mounted.  timer: the  *)
(* interval is set.  inFlight: /api/status fetches of the mounted          *)
(* component that are not answered yet; polled: those of them that the     *)
(* timer or the Refresh button started.  started, ticks, refreshes: the    *)
(* fetches started, the timer ticks and the clicks on Refresh since the    *)
(* last mount.                                                             *)
(***************************************************************************)
MaxTicks == 3

DashUnmounted ==
  [mounted |-> FALSE, timer |-> FALSE, data |-> "null", isLoading |-> TRUE,
   isFetching |-> FALSE, inFlight |-> 0, polled |-> 0, started |-> 0,
   ticks |-> 0, refreshes |-> 0]

InitDash == dash = DashUnmounted

Init == InitInv /\ InitQuery /\ InitProvider /\ InitCache /\ InitDash

\* A fetch is triggered (mount of an enabled hook, invalidation, refetch).
Fetch(q) ==
  /\ query[q].status \in {"idle", "success", "error"}
  /\ query[q].fetches < MaxFetches
  /\ query' = [query EXCEPT ![q] =
       [status |-> "fetching", failureCount |-> 0, invoked |-> 1,
        fetches |-> @.fetches + 1]]
  /\ UNCHANGED <<inv, provider, cache, dash>>

QueryFnResolves(q) ==
  /\ query[q].status = "fetching"
  /\ query' = [query EXCEPT ![q].status = "success"]
  /\ UNCHANGED <<inv, provider, cache, dash>>

QueryFnRejects(q) ==
  /\ query[q].status = "fetching"
  /\ query' = [query EXCEPT ![q] =
       IF @.failureCount < Retry(q)
         THEN [@ EXCEPT !.status = "waiting", !.failureCount = @ + 1]
         ELSE [@ EXCEPT !.status = "error"]]
  /\ UNCHANGED <<inv, provider, cache, dash>>

\* The retry delay has passed: the query function is invoked again.
RetryFires(q) ==
  /\ query[q].status = "waiting"
  /\ query' = [query EXCEPT ![q].status = "fetching", ![q].invoked = @ + 1]
  /\ UNCHANGED <<inv, provider, cache, dash>>

NextQuery ==
  \/ \E q \in Queries : Fetch(q)
  \/ \E q \in Queries : QueryFnResolves(q)
  \/ \E q \in Queries : QueryFnRejects(q)
  \/ \E q \in Queries : RetryFires(q)

SpecQuery == Init /\ [][NextQuery]_vars

Next ==
  \/ Receive(1, Requests)
  \/ \E results \in Results : UpstreamReturns(1, results)
  \/ \E thrown \in Throwables : UpstreamThrows(1, thrown)
  \/ Return(1)

Spec == Init /\ [][Next]_vars

\* Two invocations whose steps interleave.
NextPair ==
  \/ \E s \in Slots : Receive(s, PairRequests)
  \/ \E s \in Slots, results \in Results : UpstreamReturns(s, results)
  \/ \E s \in Slots, thrown \in Throwables : UpstreamThrows(s, thrown)
  \/ \E s \in Slots : Return(s)

SpecPair == Init /\ [][NextPair]_vars

(***************************************************************************)
(* context/RecipeContext: the RecipeProvider.  Its four effects run in    *)
(* the order of their declaration after the render that scheduled them,   *)
(* each reading the query string as it is when the effect runs and the    *)
(* state of that render; the setState calls they make are applied by the  *)
(* next render, which schedules the effects whose dependency changed.     *)
(***************************************************************************)
Recipes == {"A", "B"}

\* selectedRecipe.id.toString()
IdString(recipe) == IF recipe = "A" THEN "1" ELSE "2"

Terms == {"", "p", "q"}

TabTypes == {"search", "favourites"}

\* The query strings the page is opened with.
InitialUrls ==
  [recipeId : {Null, "1", "2"},
   search : {Null, "", "p", "q"},
   tab : {Null, "search", "favourites", "other"}]

\* Truthiness of the result of params.get: null and "" are falsy.
TruthyParam(value) == value # Null /\ value # ""

Update(field, value) == [field |-> field, value |-> value]

Effect(url, updates) == [url |-> url, updates |-> updates]

\* useEffect(..., [selectedRecipe])
RecipeSync(st, url) ==
  LET recipeId == url.recipeId
      selected == st.selectedRecipe # NoRecipe
  IN  IF TruthyParam(recipeId) /\ ~selected THEN Effect(url, <<>>)
      ELSE IF ~TruthyParam(recipeId) /\ selected
        THEN Effect([url EXCEPT !.recipeId = IdString(st.selectedRecipe)], <<>>)
      ELSE IF TruthyParam(recipeId) /\ selected
              /\ recipeId # IdString(st.selectedRecipe)
        THEN Effect(url, <<Update("selectedRecipe", NoRecipe)>>)
      ELSE Effect(url, <<>>)

\* Variant: the search term is never written to the query string.
SearchSyncNoWrite(st, url) ==
  LET urlSearchTerm == url.search
  IN  IF TruthyParam(urlSearchTerm) /\ urlSearchTerm # st.searchTerm
        THEN Effect(url, <<Update("searchTerm", urlSearchTerm)>>)
      ELSE Effect(url, <<>>)

\* useEffect(..., [searchTerm])
SearchSync(st, url) ==
  LET urlSearchTerm == url.search
  IN  IF TruthyParam(urlSearchTerm) /\ urlSearchTerm # st.searchTerm
        THEN Effect(url, <<Update("searchTerm", urlSearchTerm)>>)
      ELSE IF st.searchTerm # "" /\ ~TruthyParam(urlSearchTerm)
        THEN Effect([url EXCEPT !.search = st.searchTerm], <<>>)
      ELSE Effect(url, <<>>)

\* Variant: on a mismatch the effect adopts the tab of the URL and also
\* writes the tab it was rendered with to the URL.
TabSyncSwap(st, url) ==
  LET urlTab == url.tab
  IN  IF TruthyParam(urlTab) /\ urlTab \in TabTypes /\ urlTab # st.selectedTab
        THEN Effect([url EXCEPT !.tab = st.selectedTab],
                    <<Update("selectedTab", urlTab)>>)
      ELSE IF st.selectedTab # "" /\ urlTab # st.selectedTab
        THEN Effect([url EXCEPT !.tab = st.selectedTab], <<>>)
      ELSE Effect(url, <<>>)

\* useEffect(..., [selectedTab])
TabSync(st, url) ==
  LET urlTab == url.tab
  IN  IF TruthyParam(urlTab) /\ urlTab \in TabTypes /\ urlTab # st.selectedTab
        THEN Effect(url, <<Update("selectedTab", urlTab)>>)
      ELSE IF st.selectedTab # "" /\ urlTab # st.selectedTab
        THEN Effect([url EXCEPT !.tab = st.selectedTab], <<>>)
      ELSE Effect(url, <<>>)

\* useEffect(..., []): initialize from the URL on mount.
InitFromUrl(st, url) ==
  Effect(url,
         (IF TruthyParam(url.search)
            THEN <<Update("searchTerm", url.search)>> ELSE <<>>)
         \o
         (IF TruthyParam(url.tab) /\ url.tab \in TabTypes
            THEN <<Update("selectedTab", url.tab)>> ELSE <<>>))

RunOf(effect, st, url) ==
  CASE effect = "recipeSync" -> RecipeSync(st, url)
    [] effect = "searchSync" -> SearchSync(st, url)
    [] effect = "tabSync" -> TabSync(st, url)
    [] effect = "initFromUrl" -> InitFromUrl(st, url)

\* The state after the queued updates, applied in the order of their calls.
RECURSIVE Apply(_, _)
Apply(st, updates) ==
  IF updates = <<>> THEN st
  ELSE Apply([st EXCEPT ![Head(updates).field] = Head(updates).value],
             Tail(updates))

\* The effects a render schedules: those whose dependency changed.
Scheduled(old, new) ==
  (IF old.selectedRecipe # new.selectedRecipe THEN <<"recipeSync">> ELSE <<>>)
  \o (IF old.searchTerm # new.searchTerm THEN <<"searchSync">> ELSE <<>>)
  \o (IF old.selectedTab # new.selectedTab THEN <<"tabSync">> ELSE <<>>)

\* No effect is left to run and no update is left to render.
Settled ==
  provider.mounted /\ provider.effects = <<>> /\ provider.updates = <<>>

\* The page is opened: first render with the initial state, all effects due.
Mount(url) ==
  /\ ~provider.mounted
  /\ provider' = [provider EXCEPT
       !.mounted = TRUE,
       !.url = url,
       !.opened = url,
       !.effects = <<"recipeSync", "searchSync", "tabSync", "initFromUrl">>]
  /\ UNCHANGED <<inv, query, cache, dash>>

RunEffect ==
  /\ provider.mounted
  /\ provider.effects # <<>>
  /\ LET run == RunOf(Head(provider.effects), provider.st, provider.url)
     IN  provider' = [provider EXCEPT
           !.url = run.url,
           !.updates = @ \o run.updates,
           !.effects = Tail(@)]
  /\ UNCHANGED <<inv, query, cache, dash>>

Render ==
  /\ provider.mounted
  /\ provider.effects = <<>>
  /\ provider.updates # <<>>
  /\ LET new == Apply(provider.st, provider.updates)
     IN  provider' = [provider EXCEPT
           !.st = new,
           !.updates = <<>>,
           !.effects = Scheduled(provider.st, new)]
  /\ UNCHANGED <<inv, query, cache, dash>>

\* A setter of the context is called by a component (TabNavigation,
\* SearchInput, a recipe card, the detail overlay).
CallSetter(field, value) ==
  /\ Settled
  /\ provider' = [provider EXCEPT
       !.updates = Append(@, Update(field, value)),
       !.called[field] = value]
  /\ UNCHANGED <<inv, query, cache, dash>>

setSelectedRecipe(recipe) == CallSetter("selectedRecipe", recipe)

setSearchTerm(term) == CallSetter("searchTerm", term)

setSelectedTab(tab) == CallSetter("selectedTab", tab)

NextProvider ==
  \/ \E url \in InitialUrls : Mount(url)
  \/ RunEffect
  \/ Render
  \/ \E recipe \in Recipes \cup {NoRecipe} : setSelectedRecipe(recipe)
  \/ \E term \in Terms : setSearchTerm(term)
  \/ \E tab \in TabTypes : setSelectedTab(tab)

SpecProvider == Init /\ [][NextProvider]_vars

\* React runs every effect of a committed render and renders every queued
\* state update.
SpecProviderFair ==
  SpecProvider /\ WF_vars(RunEffect) /\ WF_vars(Render)

(***************************************************************************)
(* The client cache: the options of the hooks and of the QueryClient, the  *)
(* query functions of api.ts, the error toasts of AppContent, and React    *)
(* Query's rules for fetching on mount, on window focus, on reconnect and  *)
(* on invalidation, for staleness and for garbage collection.              *)
(***************************************************************************)
\* The HTTP statuses the API answers with.
Responses == {"200", "402", "500"}

\* response.ok
Ok(status) == status = "200"

StatusChars(status) ==
  CASE status = "200" -> <<"2", "0", "0">>
    [] status = "402" -> <<"4", "0", "2">>
    [] status = "500" -> <<"5", "0", "0">>

\* new Error(`HTTP error! Status: ${response.status}`)
HttpError(status) ==
  [message |-> <<"H", "T", "T", "P", " ", "e", "r", "r", "o", "r", "!", " ",
                 "S", "t", "a", "t", "u", "s", ":", " ">> \o StatusChars(status)]

LimitToast ==
  "Daily API limit reached. Please try again later or upgrade your plan."

GenericToast == "Failed to search recipes. Please try again."

FavouritesToast == "Failed to load favourite recipes."

\* The toast of the search-error effect of AppContent.
SearchErrorToast(error) ==
  IF \/ ("code" \in DOMAIN error /\ error.code = 402)
     \/ includes(error.message,
                 <<"p", "o", "i", "n", "t", "s", " ", "l", "i", "m", "i", "t">>)
    THEN LimitToast
    ELSE GenericToast

\* The error effects of AppContent, which observes the search and the
\* favourites query.
ErrorToast(key, error, previous) ==
  CASE key = "search" -> SearchErrorToast(error)
    [] key = "favourites" -> FavouritesToast
    [] OTHER -> previous

\* staleTime: Infinity in the three recipe hooks, 5 minutes in the weather hook.
StaleTimeInfinity ==
  [search |-> TRUE, favourites |-> TRUE, summary |-> TRUE, weather |-> FALSE]

\* Variant: the summary hook refetches on every mount.
RefetchOnMountSummaryAlways ==
  [search |-> "true", favourites |-> "true", summary |-> "always",
   weather |-> "always"]

\* refetchOnMount of each hook.
RefetchOnMount ==
  [search |-> "true", favourites |-> "true", summary |-> "true",
   weather |-> "always"]

\* Variant: the weather hook refetches on every window focus.
RefetchOnWindowFocusWeatherAlways ==
  [search |-> "false", favourites |-> "false", summary |-> "false",
   weather |-> "always"]

\* refetchOnWindowFocus: the client's default, overridden by the weather hook.
RefetchOnWindowFocus ==
  [search |-> "false", favourites |-> "false", summary |-> "false",
   weather |-> "true"]

\* refetchOnReconnect: the client's default; no hook overrides it.
RefetchOnReconnect ==
  [search |-> "false", favourites |-> "false", summary |-> "false",
   weather |-> "false"]

\* The data is stale: invalidated, missing, or older than the stale time.
Stale(c) == c.invalidated \/ ~c.hasData \/ c.aged

\* React Query's rule for an option that is true, false or "always".
ShouldFetchOn(c, option) ==
  option = "always" \/ (option # "false" /\ Stale(c))

\* A fetch starts: the query function is called.
StartFetch(c) ==
  [c EXCEPT !.fetching = TRUE, !.failureCount = 0, !.fetchAsOf = c.mutations,
            !.status = IF c.hasData THEN @ ELSE "pending",
            !.error = IF c.hasData THEN @ ELSE NoError]

\* The entry as the cache creates it, keeping what is not part of the entry.
Collected(c) ==
  [CacheInitial EXCEPT !.key = c.key, !.toast = c.toast,
                       !.mutations = c.mutations, !.fetched = c.fetched]

\* A component with an enabled hook for the key mounts.  AppContent holds
\* the search and favourites hooks, RecipeDetailCard the summary hook.
MountObserver(q) ==
  /\ cache.key \in {"none", q}
  /\ ~cache.mounted
  /\ LET c == [cache EXCEPT !.key = q, !.mounted = TRUE, !.event = "mount"]
     IN  cache' = IF ~c.fetching
                     /\ (~c.hasData \/ ShouldFetchOn(c, RefetchOnMount[q]))
                    THEN StartFetch(c)
                    ELSE c
  /\ UNCHANGED <<inv, query, provider, dash>>

\* The observer of the key goes away: the detail card closes, the search
\* term or page changes.  AppContent, the only observer of the favourites
\* query, stays mounted for the life of the page.
UnmountObserver ==
  /\ cache.mounted
  /\ cache.key # "favourites"
  /\ cache' = [cache EXCEPT !.mounted = FALSE, !.event = "unmount"]
  /\ UNCHANGED <<inv, query, provider, dash>>

WindowFocus ==
  /\ cache.mounted
  /\ LET c == [cache EXCEPT !.event = "focus"]
     IN  cache' = IF ~c.fetching
                     /\ ShouldFetchOn(c, RefetchOnWindowFocus[c.key])
                    THEN StartFetch(c)
                    ELSE c
  /\ UNCHANGED <<inv, query, provider, dash>>

Reconnect ==
  /\ cache.mounted
  /\ LET c == [cache EXCEPT !.event = "reconnect"]
     IN  cache' = IF ~c.fetching
                     /\ ShouldFetchOn(c, RefetchOnReconnect[c.key])
                    THEN StartFetch(c)
                    ELSE c
  /\ UNCHANGED <<inv, query, provider, dash>>

\* The stale time of the key passes since its data was fetched.
StaleTimePasses ==
  /\ cache.key # "none"
  /\ cache.hasData
  /\ ~StaleTimeInfinity[cache.key]
  /\ ~cache.aged
  /\ cache' = [cache EXCEPT !.aged = TRUE, !.event = "stale"]
  /\ UNCHANGED <<inv, query, provider, dash>>

\* gcTime (5 minutes in the recipe hooks, 10 in the weather hook) passes
\* with no observer: the entry is removed from the cache.
GcTimePasses ==
  /\ cache.key # "none"
  /\ ~cache.mounted
  /\ ~cache.fetching
  /\ cache.hasData \/ cache.status = "error"
  /\ cache' = [Collected(cache) EXCEPT !.event = "gc"]
  /\ UNCHANGED <<inv, query, provider, dash>>

\* The query function's request is answered.  A failure is retried while
\* failureCount is below the retry option and an observer is left.
Respond(status) ==
  /\ cache.fetching
  /\ cache' =
       IF Ok(status)
         THEN [cache EXCEPT !.fetching = FALSE, !.status = "success",
                 !.hasData = TRUE, !.asOf = cache.fetchAsOf,
                 !.invalidated = FALSE, !.aged = FALSE, !.error = NoError,
                 !.answered = status, !.fetched = TRUE, !.event = "respond"]
       ELSE IF cache.failureCount < Retry(cache.key) /\ cache.mounted
         THEN [cache EXCEPT !.failureCount = @ + 1, !.answered = status,
                 !.event = "respond"]
       ELSE [cache EXCEPT !.fetching = FALSE, !.status = "error",
               !.error = HttpError(status), !.answered = status,
               !.toast = IF cache.mounted
                           THEN ErrorToast(cache.key, HttpError(status), @)
                           ELSE @,
               !.event = "respond"]
  /\ UNCHANGED <<inv, query, provider, dash>>

\* invalidateQueries on the favourites key: the entry is marked invalidated
\* and, being observed, refetched; a fetch in flight is cancelled.
invalidateFavouritesQueries(c) ==
  StartFetch([c EXCEPT !.invalidated = TRUE, !.fetched = FALSE])

\* Variant: the mutations do not invalidate.
onSuccessNothing(c) == c

\* onSuccess of useAddFavouriteRecipe and of useRemoveFavouriteRecipe.
onSuccess(c) == invalidateFavouritesQueries(c)

\* An add-favourite or remove-favourite mutation of AppContent succeeds.
MutationSucceeds ==
  /\ cache.key = "favourites"
  /\ cache.mounted
  /\ cache.mutations < MaxMutations
  /\ cache' = onSuccess([cache EXCEPT !.mutations = @ + 1,
                                      !.event = "mutation"])
  /\ UNCHANGED <<inv, query, provider, dash>>

NextCache ==
  \/ \E q \in Queries : MountObserver(q)
  \/ UnmountObserver
  \/ WindowFocus
  \/ Reconnect
  \/ StaleTimePasses
  \/ GcTimePasses
  \/ \E status \in Responses : Respond(status)
  \/ MutationSucceeds

SpecCache == Init /\ [][NextCache]_vars

(***************************************************************************)
(* components/status/ApiStatusDashboard.                                   *)
(***************************************************************************)
\* const fetchStatus = async () => { ... }: up to the await of fetch.
fetchStatus(d) ==
  [d EXCEPT !.inFlight = @ + 1, !.started = @ + 1]

\* Variant: the effect returns no cleanup.
CleanupNothing(d) == d

\* return () => clearInterval(id)
Cleanup(d) == [d EXCEPT !.timer = FALSE]

\* The component mounts: the effect fetches and sets the interval.
MountDashboard ==
  /\ ~dash.mounted
  /\ dash' = fetchStatus([DashUnmounted EXCEPT !.mounted = TRUE,
                                               !.timer = TRUE])
  /\ UNCHANGED <<inv, query, provider, cache>>

\* The interval fires, 10 seconds after the mount or the last tick.
TimerTick ==
  /\ dash.timer
  /\ dash.ticks + dash.refreshes < MaxTicks
  /\ dash' = fetchStatus([dash EXCEPT !.isFetching = dash.mounted,
                                      !.polled = @ + 1,
                                      !.ticks = @ + 1])
  /\ UNCHANGED <<inv, query, provider, cache>>

\* A click on Refresh, which is rendered once isLoading is false and is
\* disabled while isFetching.
handleRefresh ==
  /\ dash.mounted
  /\ ~dash.isLoading
  /\ ~dash.isFetching
  /\ dash.ticks + dash.refreshes < MaxTicks
  /\ dash' = fetchStatus([dash EXCEPT !.isFetching = TRUE,
                                      !.polled = @ + 1,
                                      !.refreshes = @ + 1])
  /\ UNCHANGED <<inv, query, provider, cache>>

\* A fetch of the mounted component is answered (json) or fails (null):
\* the fetch of the mount, or one that the timer or Refresh started.
FetchSettles(data, byPoll) ==
  /\ dash.mounted
  /\ IF byPoll THEN dash.polled > 0 ELSE dash.inFlight > dash.polled
  /\ dash' = [dash EXCEPT !.data = data, !.isLoading = FALSE,
                          !.isFetching = FALSE, !.inFlight = @ - 1,
                          !.polled = IF byPoll THEN @ - 1 ELSE @]
  /\ UNCHANGED <<inv, query, provider, cache>>

\* The component unmounts: the cleanup runs, and the answers to the
\* fetches still in flight no longer change any state.
UnmountDashboard ==
  /\ dash.mounted
  /\ dash' = Cleanup([dash EXCEPT !.mounted = FALSE, !.inFlight = 0,
                                  !.polled = 0])
  /\ UNCHANGED <<inv, query, provider, cache>>

NextStatus ==
  \/ MountDashboard
  \/ TimerTick
  \/ handleRefresh
  \/ \E data \in {"json", "null"}, byPoll \in BOOLEAN :
       FetchSettles(data, byPoll)
  \/ UnmountDashboard

SpecStatus == Init /\ [][NextStatus]_vars

(***************************************************************************)
(* Properties.                                                             *)
(***************************************************************************)

\* C1: in the food/wine handler every request that is not answered as a CORS
\* preflight and whose method is not GET is answered with status 405 and
\* error "Method not allowed", whatever its action and query parameters, and
\* no upstream function is called.
FoodWineMethodNotAllowed ==
  \A s \in Slots :
    LET r == inv[s].request
    IN  (inv[s].pc # "idle" /\ r.handler = "foodwine"
         /\ ~handleCorsPreflight(r) /\ r.method # "GET")
        => /\ inv[s].pc = "done"
           /\ inv[s].sent = <<Response(405, [error |-> "Method not allowed"])>>
           /\ inv[s].calls = <<>>

\* A POST to the pairing route with valid food and maxPrice was answered 405.
FoodWineMethodNotAllowedWitness ==
  /\ inv[1].pc = "done"
  /\ inv[1].request.handler = "foodwine"
  /\ inv[1].request.method = "POST"
  /\ inv[1].request.action = <<"pairing">>
  /\ inv[1].request.food = Str(<<"a">>)
  /\ inv[1].request.maxPrice = Str(<<"5">>)
  /\ inv[1].sent[1].status = 405

\* C2 as stated: in the recipe-detail handler every request that is not
\* answered as a CORS preflight and whose method is not GET is answered with
\* status 405 "Method not allowed", whatever its recipeId and action, and no
\* upstream function is called.
RecipeMethodNotAllowedAnyId ==
  \A s \in Slots :
    LET r == inv[s].request
    IN  (inv[s].pc # "idle" /\ r.handler = "recipe"
         /\ ~handleCorsPreflight(r) /\ r.method # "GET")
        => /\ inv[s].pc = "done"
           /\ inv[s].sent = <<Response(405, [error |-> "Method not allowed"])>>
           /\ inv[s].calls = <<>>

\* C2 as amended: in the recipe-detail handler every request that is not
\* answered as a CORS preflight and whose method is not GET calls no upstream
\* function; it is answered with status 405 "Method not allowed", whatever
\* its action, when its recipeId is a string of one or more decimal digits,
\* and with status 400 "Valid recipe ID is required" otherwise.
RecipeMethodNotAllowed ==
  \A s \in Slots :
    LET r == inv[s].request
        digitId == /\ Len(r.recipeId) = 1
                   /\ Len(r.recipeId[1]) >= 1
                   /\ \A i \in 1..Len(r.recipeId[1]) : r.recipeId[1][i] \in Digits
    IN  (inv[s].pc # "idle" /\ r.handler = "recipe"
         /\ ~handleCorsPreflight(r) /\ r.method # "GET")
        => /\ inv[s].pc = "done"
           /\ inv[s].calls = <<>>
           /\ inv[s].sent =
                IF digitId
                  THEN <<Response(405, [error |-> "Method not allowed"])>>
                  ELSE <<Response(400, [error |-> "Valid recipe ID is required"])>>

\* A POST with a digit-only recipeId to the summary route was answered 405.
RecipeMethodNotAllowedWitness ==
  /\ inv[1].pc = "done"
  /\ inv[1].request.handler = "recipe"
  /\ inv[1].request.method = "POST"
  /\ inv[1].request.recipeId = Str(<<"7", "7">>)
  /\ inv[1].request.action = <<"summary">>
  /\ inv[1].sent[1].status = 405

\* C3 as stated: in the recipe-detail handler a request whose recipeId is
\* missing, empty or contains a non-digit character is answered with status
\* 400 "Valid recipe ID is required" and no upstream function is called; an
\* upstream function is only called with a recipeId of one or more digits.
RecipeIdRequiredAnyMethod ==
  \A s \in Slots :
    LET r == inv[s].request
        digitId == /\ Len(r.recipeId) = 1
                   /\ Len(r.recipeId[1]) >= 1
                   /\ \A i \in 1..Len(r.recipeId[1]) : r.recipeId[1][i] \in Digits
    IN  (inv[s].pc # "idle" /\ r.handler = "recipe")
        => /\ ~digitId =>
                /\ inv[s].pc = "done"
                /\ inv[s].sent = <<Response(400, [error |-> "Valid recipe ID is required"])>>
                /\ inv[s].calls = <<>>
           /\ \A i \in 1..Len(inv[s].calls) :
                /\ Len(inv[s].calls[i].arg) >= 1
                /\ \A j \in 1..Len(inv[s].calls[i].arg) : inv[s].calls[i].arg[j] \in Digits

\* C3 as amended: as stated, for the requests that are not answered as a
\* CORS preflight.
RecipeIdRequired ==
  \A s \in Slots :
    LET r == inv[s].request
        digitId == /\ Len(r.recipeId) = 1
                   /\ Len(r.recipeId[1]) >= 1
                   /\ \A i \in 1..Len(r.recipeId[1]) : r.recipeId[1][i] \in Digits
    IN  (inv[s].pc # "idle" /\ r.handler = "recipe" /\ ~handleCorsPreflight(r))
        => /\ ~digitId =>
                /\ inv[s].pc = "done"
                /\ inv[s].sent = <<Response(400, [error |-> "Valid recipe ID is required"])>>
                /\ inv[s].calls = <<>>
           /\ \A i \in 1..Len(inv[s].calls) :
                /\ Len(inv[s].calls[i].arg) >= 1
                /\ \A j \in 1..Len(inv[s].calls[i].arg) : inv[s].calls[i].arg[j] \in Digits

\* A GET for recipeId "7a" to the summary route was answered 400.
RecipeIdRequiredWitness ==
  /\ inv[1].pc = "done"
  /\ inv[1].request.handler = "recipe"
  /\ inv[1].request.method = "GET"
  /\ inv[1].request.recipeId = Str(<<"7", "a">>)
  /\ inv[1].request.action = <<"summary">>
  /\ inv[1].sent[1].status = 400
  /\ inv[1].calls = <<>>

\* C4: in the food/wine handler a GET to "dishes" whose wine is missing or
\* blank after trimming, and a GET to "pairing" whose food is missing or
\* blank after trimming, is answered with status 400 without an upstream
\* call; with a non-blank parameter and a successful upstream call the
\* answer is 200 carrying the upstream result.
FoodWineRequiredParameter ==
  \A s \in Slots :
    LET r == inv[s].request
        route == IF Len(r.action) = 0 THEN "" ELSE r.action[1]
        p == IF route = "dishes" THEN r.wine ELSE r.food
        blank == \/ p = Absent
                 \/ Len(p) = 1 /\ \A i \in 1..Len(p[1]) : p[1][i] \in WhiteSpace
        text == Len(p) = 1 /\ \E i \in 1..Len(p[1]) : p[1][i] \notin WhiteSpace
    IN  (inv[s].pc # "idle" /\ r.handler = "foodwine" /\ r.method = "GET"
         /\ route \in {"dishes", "pairing"})
        => /\ blank =>
                /\ inv[s].pc = "done"
                /\ Len(inv[s].sent) = 1
                /\ inv[s].sent[1].status = 400
                /\ inv[s].calls = <<>>
           /\ (text /\ inv[s].outcome.kind = "ok") =>
                /\ inv[s].sent = <<Response(200, [data |-> inv[s].outcome.value])>>
                /\ Len(inv[s].calls) = 1
                /\ inv[s].calls[1].fn =
                     IF route = "dishes" THEN "getDishPairingForWine"
                     ELSE "getWinePairing"
                /\ inv[s].calls[1].arg = p[1]

\* A GET to "dishes" with the wine " " (blank after trimming) was answered 400.
FoodWineRequiredParameterWitness ==
  /\ inv[1].pc = "done"
  /\ inv[1].request.handler = "foodwine"
  /\ inv[1].request.method = "GET"
  /\ inv[1].request.action = <<"dishes">>
  /\ inv[1].request.wine = Str(<<" ">>)
  /\ inv[1].sent[1].status = 400
  /\ inv[1].calls = <<>>

\* C5: in both handlers a GET that passes the earlier checks (recipe detail:
\* digit-only recipeId) and whose first action segment is missing or none of
\* the handled names is answered with status 404 "Not found" and no upstream
\* function is called.
UnknownActionNotFound ==
  \A s \in Slots :
    LET r == inv[s].request
        digitId == /\ Len(r.recipeId) = 1
                   /\ Len(r.recipeId[1]) >= 1
                   /\ \A i \in 1..Len(r.recipeId[1]) : r.recipeId[1][i] \in Digits
        names == IF r.handler = "foodwine" THEN {"dishes", "pairing"}
                 ELSE {"information", "similar", "summary"}
    IN  (/\ inv[s].pc # "idle"
         /\ r.method = "GET"
         /\ r.handler = "recipe" => digitId
         /\ Len(r.action) = 0 \/ r.action[1] \notin names)
        => /\ inv[s].pc = "done"
           /\ inv[s].sent = <<Response(404, [error |-> "Not found"])>>
           /\ inv[s].calls = <<>>

\* A GET to /api/food/wine/other/dishes with a wine was answered 404.
UnknownActionNotFoundWitness ==
  /\ inv[1].pc = "done"
  /\ inv[1].request.handler = "foodwine"
  /\ inv[1].request.method = "GET"
  /\ inv[1].request.action = <<"other", "dishes">>
  /\ inv[1].request.wine = Str(<<"a">>)
  /\ inv[1].sent[1].status = 404
  /\ inv[1].calls = <<>>

\* C6: in both handlers, when the upstream call throws, the status is 402 if
\* the error message contains "limit" or "402" and 500 in every other case
\* (thrown values that are not Errors included), and the body carries the
\* error message.
UpstreamErrorStatus ==
  \A s \in Slots :
    inv[s].outcome.kind = "throw" =>
      LET t == inv[s].outcome.thrown
          msg == IF t.isError THEN t.message ELSE <<"U", "n", "k", "n", "o", "w", "n", " ", "e", "r", "r", "o", "r">>
          Contains(sub) ==
            \E i \in 0..(Len(msg) - Len(sub)) :
              \A j \in 1..Len(sub) : msg[i + j] = sub[j]
      IN  /\ inv[s].pc = "done"
          /\ Len(inv[s].sent) = 1
          /\ inv[s].sent[1].status =
               IF Contains(<<"l", "i", "m", "i", "t">>) \/ Contains(<<"4", "0", "2">>) THEN 402 ELSE 500
          /\ inv[s].sent[1].body.message = msg

\* The upstream call of a summary request threw "HTTP 402": answered 402.
UpstreamErrorStatusWitness ==
  /\ inv[1].pc = "done"
  /\ inv[1].request.handler = "recipe"
  /\ inv[1].outcome.kind = "throw"
  /\ inv[1].outcome.thrown = Thrown(TRUE, <<"H", "T", "T", "P", " ", "4", "0", "2">>)
  /\ inv[1].sent[1].status = 402

\* C7: the food/wine "pairing" route rejects with status 400 "maxPrice must
\* be a positive number" every request whose supplied maxPrice is not a
\* positive number (not numeric, negative, or zero), and calls getWinePairing
\* only when maxPrice is absent or is a positive number.  (An empty maxPrice
\* is taken as absent, the reading most favourable to the claim.)
MaxPricePositive ==
  \A s \in Slots :
    LET r == inv[s].request
        text == Len(r.food) = 1 /\ \E i \in 1..Len(r.food[1]) : r.food[1][i] \notin WhiteSpace
        supplied == r.maxPrice # Absent /\ r.maxPrice # Str(<<>>)
        price == parseFloat(ToStr(r.maxPrice))
        positive == price.kind = "number" /\ ~price.neg /\ price.num > 0
    IN  (inv[s].pc # "idle" /\ r.handler = "foodwine" /\ r.method = "GET"
         /\ Len(r.action) >= 1 /\ r.action[1] = "pairing" /\ text)
        => /\ (supplied /\ ~positive) =>
                /\ inv[s].pc = "done"
                /\ inv[s].sent = <<Response(400, [error |-> "maxPrice must be a positive number"])>>
                /\ inv[s].calls = <<>>
           /\ \A i \in 1..Len(inv[s].calls) :
                \/ inv[s].calls[i].num = Undefined /\ ~supplied
                \/ /\ inv[s].calls[i].num.kind = "number"
                   /\ ~inv[s].calls[i].num.neg
                   /\ inv[s].calls[i].num.num > 0

\* C8 as stated: the "similar" route calls getSimilarRecipes(recipeId, n) only
\* with an integer n in 1..100, n being 10 when the number parameter is absent
\* and the parsed parameter otherwise; every supplied number that parses to
\* NaN or to a value below 1 or above 100 is answered with status 400 "Number
\* must be between 1 and 100" and no upstream call.
SimilarNumberSupplied ==
  \A s \in Slots :
    LET r == inv[s].request
        digitId == /\ Len(r.recipeId) = 1
                   /\ Len(r.recipeId[1]) >= 1
                   /\ \A i \in 1..Len(r.recipeId[1]) : r.recipeId[1][i] \in Digits
        supplied == r.number # Absent
        parsed == parseInt(ToStr(r.number))
        InRange(n) == n.kind = "number" /\ n.den = 1 /\ ~n.neg /\ n.num \in 1..100
    IN  (inv[s].pc # "idle" /\ r.handler = "recipe" /\ r.method = "GET"
         /\ digitId /\ Len(r.action) >= 1 /\ r.action[1] = "similar")
        => /\ \A i \in 1..Len(inv[s].calls) :
                /\ inv[s].calls[i].fn = "getSimilarRecipes"
                /\ InRange(inv[s].calls[i].num)
                /\ inv[s].calls[i].num =
                     IF supplied THEN parsed ELSE Number(FALSE, 10, 1)
           /\ (supplied /\ ~InRange(parsed)) =>
                /\ inv[s].pc = "done"
                /\ inv[s].sent = <<Response(400, [error |-> "Number must be between 1 and 100"])>>
                /\ inv[s].calls = <<>>

\* C8 as amended: as stated, with n being 10 when the number parameter is
\* absent or the empty string, and the 400 answer given to every non-empty
\* supplied number that parses to NaN or to a value below 1 or above 100.
SimilarNumber ==
  \A s \in Slots :
    LET r == inv[s].request
        digitId == /\ Len(r.recipeId) = 1
                   /\ Len(r.recipeId[1]) >= 1
                   /\ \A i \in 1..Len(r.recipeId[1]) : r.recipeId[1][i] \in Digits
        supplied == r.number # Absent /\ r.number # Str(<<>>)
        parsed == parseInt(ToStr(r.number))
        InRange(n) == n.kind = "number" /\ n.den = 1 /\ ~n.neg /\ n.num \in 1..100
    IN  (inv[s].pc # "idle" /\ r.handler = "recipe" /\ r.method = "GET"
         /\ digitId /\ Len(r.action) >= 1 /\ r.action[1] = "similar")
        => /\ \A i \in 1..Len(inv[s].calls) :
                /\ inv[s].calls[i].fn = "getSimilarRecipes"
                /\ InRange(inv[s].calls[i].num)
                /\ inv[s].calls[i].num =
                     IF supplied THEN parsed ELSE Number(FALSE, 10, 1)
           /\ (supplied /\ ~InRange(parsed)) =>
                /\ inv[s].pc = "done"
                /\ inv[s].sent = <<Response(400, [error |-> "Number must be between 1 and 100"])>>
                /\ inv[s].calls = <<>>

\* A GET to "similar" with number "101" was answered 400 without a call.
SimilarNumberWitness ==
  /\ inv[1].pc = "done"
  /\ inv[1].request.handler = "recipe"
  /\ inv[1].request.method = "GET"
  /\ inv[1].request.recipeId = Str(<<"7">>)
  /\ inv[1].request.action = <<"similar">>
  /\ inv[1].request.number = Str(<<"1", "0", "1">>)
  /\ inv[1].sent[1].status = 400
  /\ inv[1].calls = <<>>

FixedRetryCount ==
  /\ [](\A q \in Queries :
          LET limit == IF q = "weather" THEN 3 ELSE 2
          IN  /\ query[q].invoked <= limit
              /\ query[q].status = "error" => query[q].invoked = limit)
  /\ [][\A q \in Queries :
          (query[q].status = "error" /\ query'[q].fetches = query[q].fetches)
          => (query'[q].invoked = query[q].invoked /\ query'[q].status = "error")]_vars

\* The search query failed after 2 invocations and the weather query after 3.
FixedRetryCountWitness ==
  /\ query["search"].status = "error"
  /\ query["search"].invoked = 2
  /\ query["weather"].status = "error"
  /\ query["weather"].invoked = 3


(***************************************************************************)
(* C14: whenever the sync effects of the RecipeProvider have settled, the  *)
(* tab parameter of the URL equals selectedTab and, when searchTerm is     *)
(* non-empty, the search parameter of the URL equals searchTerm; and when  *)
(* they settle for the first time after the mount (no setter called yet),  *)
(* a search or a valid tab the page was opened with is the state.          *)
(***************************************************************************)
QueryParamsSynchronized ==
  Settled =>
    /\ provider.url.tab = provider.st.selectedTab
    /\ provider.st.searchTerm # "" =>
         provider.url.search = provider.st.searchTerm
    /\ (\A field \in DOMAIN provider.called :
          provider.called[field] = NotCalled) =>
         /\ provider.opened.search # Null =>
              provider.st.searchTerm = provider.opened.search
         /\ provider.opened.tab \in TabTypes =>
              provider.st.selectedTab = provider.opened.tab

\* A page opened with ?tab=favourites and no search, where the user typed
\* a term that the search effect then wrote to the URL.
QueryParamsSynchronizedWitness ==
  /\ Settled
  /\ provider.opened.tab = "favourites"
  /\ provider.st.selectedTab = "favourites"
  /\ provider.opened.search = Null
  /\ provider.called.searchTerm = "p"
  /\ provider.url.search = "p"

(***************************************************************************)
(* C15: whenever the sync effects have settled, the recipeId parameter of  *)
(* the URL is the id of the selected recipe when one is selected and is    *)
(* absent when none is.                                                    *)
(***************************************************************************)
RecipeIdSynchronized ==
  Settled =>
    IF provider.st.selectedRecipe # NoRecipe
      THEN provider.url.recipeId = IdString(provider.st.selectedRecipe)
      ELSE provider.url.recipeId = Null

(***************************************************************************)
(* C18: once the sync effects have settled after a call                    *)
(* setSelectedTab(t), selectedTab is t.                                    *)
(***************************************************************************)
SelectedTabIsLastChosen ==
  (Settled /\ provider.called.selectedTab # NotCalled) =>
    provider.st.selectedTab = provider.called.selectedTab

(***************************************************************************)
(* C19: once the sync effects have settled after a call setSearchTerm(t),  *)
(* searchTerm is t.                                                        *)
(***************************************************************************)
SearchTermIsLastEntered ==
  (Settled /\ provider.called.searchTerm # NotCalled) =>
    provider.st.searchTerm = provider.called.searchTerm

(***************************************************************************)
(* C20: once the sync effects have settled after a call                    *)
(* setSelectedRecipe(R) with R a recipe, R is selected.                    *)
(***************************************************************************)
SelectedRecipeIsLastSelected ==
  (Settled /\ provider.called.selectedRecipe \in Recipes) =>
    provider.st.selectedRecipe = provider.called.selectedRecipe


RateLimitToast ==
  (cache.key = "search" /\ cache.mounted /\ cache.event = "respond"
   /\ cache.status = "error" /\ cache.answered = "402")
    => cache.toast = LimitToast

StatusPolling ==
  /\ [](IF dash.mounted
          THEN /\ dash.timer
               /\ dash.started = 1 + dash.ticks + dash.refreshes
          ELSE ~dash.timer)
  /\ [][~dash'.mounted => dash'.started = dash.started]_vars

\* Unmounted after the fetch of the mount and those of two timer ticks.
StatusPollingWitness ==
  /\ ~dash.mounted
  /\ ~dash.timer
  /\ dash.ticks = 2
  /\ dash.started = 3

(***************************************************************************)
(* C21: after the mount and after every setter call the effect runs and    *)
(* renders of the RecipeProvider come to an end: the provider gets         *)
(* settled, and in a settled state a run of any of the effects changes     *)
(* neither the URL nor the state.                                          *)
(***************************************************************************)
SyncEffectsSettle ==
  /\ (provider.mounted /\ ~Settled) ~> Settled
  /\ [](Settled =>
          \A effect \in {"recipeSync", "searchSync", "tabSync", "initFromUrl"} :
            LET run == RunOf(effect, provider.st, provider.url)
            IN  /\ run.url = provider.url
                /\ Apply(provider.st, run.updates) = provider.st)

\* Settled after a page opened with ?recipeId=1 and ?tab=search had recipe B
\* selected and the other tab chosen, both of which the effects took back.
SyncEffectsSettleWitness ==
  /\ Settled
  /\ provider.opened.recipeId = "1"
  /\ provider.opened.tab = "search"
  /\ provider.called.selectedRecipe = "B"
  /\ provider.called.selectedTab = "favourites"
  /\ provider.st.selectedRecipe = NoRecipe
  /\ provider.st.selectedTab = "search"

(***************************************************************************)
(* C22: in the mounted ApiStatusDashboard, whenever a fetch started by the *)
(* timer or by the Refresh button is in flight, isFetching is true, which  *)
(* disables the Refresh button.                                            *)
(***************************************************************************)
FetchingWhileInFlight ==
  (dash.mounted /\ dash.polled > 0) => dash.isFetching

(***************************************************************************)
(* C23: an invocation of either handler has sent no response while it      *)
(* runs and exactly one when it has finished; it makes at most one         *)
(* upstream call, which is not repeated when it throws; and a call is made *)
(* only for a GET request whose route was selected and whose parameters    *)
(* passed every check of that route.                                       *)
(***************************************************************************)
OneResponseOneCall ==
  \A s \in Slots :
    LET r == inv[s].request
        calls == inv[s].calls
        head == IF Len(r.action) >= 1 THEN r.action[1] ELSE ""
        nonBlank(v) == Len(v) = 1 /\ Len(trim(v[1])) > 0
        given(v) == v # Absent /\ v # Str(<<>>)
        digitId == /\ Len(r.recipeId) = 1
                   /\ Len(r.recipeId[1]) >= 1
                   /\ \A i \in 1..Len(r.recipeId[1]) : r.recipeId[1][i] \in Digits
        number == parseInt(ToStr(r.number))
        numberOk == given(r.number) =>
                      (number.kind = "number" /\ number.den = 1
                       /\ ~number.neg /\ number.num \in 1..100)
        maxPrice == parseFloat(ToStr(r.maxPrice))
        maxPriceOk == given(r.maxPrice) =>
                        (~isNaN(maxPrice) /\ ~LessThan(maxPrice, 0))
        validated(fn) ==
          /\ r.method = "GET"
          /\ IF r.handler = "foodwine"
               THEN \/ head = "dishes" /\ nonBlank(r.wine)
                       /\ fn = "getDishPairingForWine"
                    \/ head = "pairing" /\ nonBlank(r.food) /\ maxPriceOk
                       /\ fn = "getWinePairing"
               ELSE /\ r.handler = "recipe"
                    /\ digitId
                    /\ \/ head = "information" /\ fn = "getRecipeInformation"
                       \/ head = "similar" /\ numberOk
                          /\ fn = "getSimilarRecipes"
                       \/ head = "summary" /\ fn = "getRecipeSummary"
    IN  /\ Len(inv[s].sent) = (IF inv[s].pc = "done" THEN 1 ELSE 0)
        /\ Len(calls) <= 1
        /\ inv[s].pc = "awaiting" => Len(calls) = 1
        /\ inv[s].outcome.kind # "none" => Len(calls) = 1
        /\ \A i \in 1..Len(calls) : validated(calls[i].fn)

\* getSimilarRecipes threw for a validated request: the invocation finished
\* with that one call and the one response of the catch block.
OneResponseOneCallWitness ==
  /\ inv[1].pc = "done"
  /\ inv[1].request.handler = "recipe"
  /\ inv[1].request.action = <<"similar">>
  /\ inv[1].request.number = Str(<<"1">>)
  /\ inv[1].outcome.kind = "throw"
  /\ Len(inv[1].calls) = 1
  /\ Len(inv[1].sent) = 1
  /\ inv[1].sent[1].status = 500

====
